---- MODULE Spec2Model ----
(***************************************************************************)
(* Media-analysis endpoints (POST), their reply normalization, and the     *)
(* configuration probe (GET) of the upload/analysis web application.       *)
(*                                                                         *)
(* JavaScript strings are sequences of one-character strings.  The        *)
(* grave accent cannot be written inside a string of this language, so     *)
(* the character is named by the atom Backtick.                            *)
(***************************************************************************)
EXTENDS Integers, Sequences, FiniteSets, TLC

Backtick == "<backtick>"

(***************************************************************************)
(* String literals of the source.                                          *)
(***************************************************************************)
KEY_TRANSCRIPT ==
    <<"t", "r", "a", "n", "s", "c", "r", "i", "p", "t">>
KEY_ANALYTICS ==
    <<"a", "n", "a", "l", "y", "t", "i", "c", "s">>
LIT_TRUE ==
    <<"t", "r", "u", "e">>
LIT_FALSE ==
    <<"f", "a", "l", "s", "e">>
LIT_NULL ==
    <<"n", "u", "l", "l">>
FENCE ==
    <<Backtick, Backtick, Backtick>>
FENCE_JSON ==
    <<Backtick, Backtick, Backtick, "j", "s", "o", "n">>
EMPTY_TEXT ==
    <<>>
NO_TRANSCRIPT ==
    <<"N", "o", " ", "t", "r", "a", "n", "s", "c", "r", "i", "p", "t", " ", "a", "v", "a", "i",
      "l", "a", "b", "l", "e">>
NO_ANALYTICS ==
    <<"N", "o", " ", "a", "n", "a", "l", "y", "t", "i", "c", "s", " ", "a", "v", "a", "i", "l",
      "a", "b", "l", "e">>
CONFIG_ERROR ==
    <<"G", "e", "m", "i", "n", "i", " ", "A", "P", "I", " ", "k", "e", "y", " ", "i", "s", " ",
      "n", "o", "t", " ", "c", "o", "n", "f", "i", "g", "u", "r", "e", "d", ".", " ", "P", "l",
      "e", "a", "s", "e", " ", "a", "d", "d", " ", "G", "E", "M", "I", "N", "I", "_", "A", "P",
      "I", "_", "K", "E", "Y", " ", "t", "o", " ", "y", "o", "u", "r", " ", ".", "e", "n", "v",
      ".", "l", "o", "c", "a", "l", " ", "f", "i", "l", "e", ".">>
NO_VIDEO_FILE ==
    <<"N", "o", " ", "v", "i", "d", "e", "o", " ", "f", "i", "l", "e", " ", "p", "r", "o", "v",
      "i", "d", "e", "d">>
NO_AUDIO_FILE ==
    <<"N", "o", " ", "a", "u", "d", "i", "o", " ", "f", "i", "l", "e", " ", "p", "r", "o", "v",
      "i", "d", "e", "d">>
TOO_LARGE_VIDEO ==
    <<"F", "i", "l", "e", " ", "s", "i", "z", "e", " ", "t", "o", "o", " ", "l", "a", "r", "g",
      "e", ".", " ", "P", "l", "e", "a", "s", "e", " ", "u", "p", "l", "o", "a", "d", " ", "a",
      " ", "v", "i", "d", "e", "o", " ", "s", "m", "a", "l", "l", "e", "r", " ", "t", "h", "a",
      "n", " ", "2", "0", "M", "B", ".">>
TOO_LARGE_AUDIO ==
    <<"F", "i", "l", "e", " ", "s", "i", "z", "e", " ", "t", "o", "o", " ", "l", "a", "r", "g",
      "e", ".", " ", "P", "l", "e", "a", "s", "e", " ", "u", "p", "l", "o", "a", "d", " ", "a",
      " ", "a", "u", "d", "i", "o", " ", "s", "m", "a", "l", "l", "e", "r", " ", "t", "h", "a",
      "n", " ", "2", "0", "M", "B", ".">>
UNABLE_VIDEO ==
    <<"U", "n", "a", "b", "l", "e", " ", "t", "o", " ", "g", "e", "n", "e", "r", "a", "t", "e",
      " ", "s", "t", "r", "u", "c", "t", "u", "r", "e", "d", " ", "a", "n", "a", "l", "y", "t",
      "i", "c", "s", ".", " ", "P", "l", "e", "a", "s", "e", " ", "t", "r", "y", " ", "w", "i",
      "t", "h", " ", "a", " ", "d", "i", "f", "f", "e", "r", "e", "n", "t", " ", "v", "i", "d",
      "e", "o", " ", "o", "r", " ", "c", "h", "e", "c", "k", " ", "t", "h", "e", " ", "t", "r",
      "a", "n", "s", "c", "r", "i", "p", "t", " ", "a", "b", "o", "v", "e", ".">>
UNABLE_AUDIO ==
    <<"U", "n", "a", "b", "l", "e", " ", "t", "o", " ", "g", "e", "n", "e", "r", "a", "t", "e",
      " ", "s", "t", "r", "u", "c", "t", "u", "r", "e", "d", " ", "a", "n", "a", "l", "y", "t",
      "i", "c", "s", ".", " ", "P", "l", "e", "a", "s", "e", " ", "t", "r", "y", " ", "w", "i",
      "t", "h", " ", "a", " ", "d", "i", "f", "f", "e", "r", "e", "n", "t", " ", "a", "u", "d",
      "i", "o", " ", "o", "r", " ", "c", "h", "e", "c", "k", " ", "t", "h", "e", " ", "t", "r",
      "a", "n", "s", "c", "r", "i", "p", "t", " ", "a", "b", "o", "v", "e", ".">>
FAILED_VIDEO ==
    <<"F", "a", "i", "l", "e", "d", " ", "t", "o", " ", "p", "r", "o", "c", "e", "s", "s", " ",
      "v", "i", "d", "e", "o">>
FAILED_AUDIO ==
    <<"F", "a", "i", "l", "e", "d", " ", "t", "o", " ", "p", "r", "o", "c", "e", "s", "s", " ",
      "a", "u", "d", "i", "o">>
ELLIPSIS ==
    <<".", ".", ".">>
NOT_AVAILABLE ==
    <<"N", "/", "A">>
MB_SUFFIX ==
    <<" ", "M", "B">>

(***************************************************************************)
(* JavaScript values.                                                      *)
(***************************************************************************)
Undefined == [t |-> "undefined"]
Null == [t |-> "null"]
JBool(b) == [t |-> "boolean", v |-> b]
JNum(n) == [t |-> "number", v |-> n]
JStr(s) == [t |-> "string", v |-> s]
JArr(a) == [t |-> "array", v |-> a]
JObj(f) == [t |-> "object", v |-> f]
EmptyObj == [k \in {} |-> Undefined]

\* ToBoolean: undefined, null, false, 0 and '' are falsy; every object is truthy
Truthy(x) ==
    CASE x.t \in {"undefined", "null"} -> FALSE
      [] x.t = "boolean" -> x.v
      [] x.t = "number" -> x.v # 0
      [] x.t = "string" -> x.v # <<>>
      [] OTHER -> TRUE

\* a || b
Or(a, b) == IF Truthy(a) THEN a ELSE b

\* x.key throws a TypeError when x is null or undefined
ThrowsOnAccess(x) == x.t \in {"undefined", "null"}

\* x.key for key in {transcript, analytics}: an own property of an object,
\* undefined on arrays, strings, numbers and booleans
GetProp(x, key) ==
    IF x.t = "object" /\ key \in DOMAIN x.v THEN x.v[key] ELSE Undefined

PutProp(f, key, val) ==
    [k \in (DOMAIN f) \cup {key} |-> IF k = key THEN val ELSE f[k]]

(***************************************************************************)
(* String primitives: trim, substring, the three fence-stripping replaces  *)
(* and the brace-delimited match.                                          *)
(***************************************************************************)
WhiteSpace == {" ", "\n", "\t", "\r"}

RECURSIVE TrimStart(_)
TrimStart(s) ==
    IF s # <<>> /\ Head(s) \in WhiteSpace THEN TrimStart(Tail(s)) ELSE s

RECURSIVE TrimEnd(_)
TrimEnd(s) ==
    IF s # <<>> /\ s[Len(s)] \in WhiteSpace
    THEN TrimEnd(SubSeq(s, 1, Len(s) - 1))
    ELSE s

\* String.prototype.trim
Trim(s) == TrimEnd(TrimStart(s))

Min(a, b) == IF a < b THEN a ELSE b
Max(a, b) == IF a > b THEN a ELSE b

\* String.prototype.substring(start, end): 0-based, end exclusive, clamped
Substring(s, start, end) ==
    LET a == Max(0, Min(start, Len(s)))
        b == Max(0, Min(end, Len(s)))
    IN  SubSeq(s, Min(a, b) + 1, Max(a, b))

\* String.prototype.substring(start)
SubstringFrom(s, start) == Substring(s, start, Len(s))

StartsWithAt(s, i, p) ==
    /\ i + Len(p) - 1 <= Len(s)
    /\ SubSeq(s, i, i + Len(p) - 1) = p

\* s.replace(/^```json\s*\n?/, ''): the greedy \s* takes the whole
\* whitespace run after the marker
StripFenceJson(s) ==
    IF StartsWithAt(s, 1, FENCE_JSON)
    THEN TrimStart(SubSeq(s, Len(FENCE_JSON) + 1, Len(s)))
    ELSE s

\* s.replace(/^```\s*\n?/, '')
StripFenceOpen(s) ==
    IF StartsWithAt(s, 1, FENCE)
    THEN TrimStart(SubSeq(s, Len(FENCE) + 1, Len(s)))
    ELSE s

\* /\n?```\s*$/ matches at position i (1-based)
EndFenceAt(s, i) ==
    LET j == IF i <= Len(s) /\ s[i] = "\n" THEN i + 1 ELSE i
    IN  /\ StartsWithAt(s, j, FENCE)
        /\ \A k \in (j + Len(FENCE))..Len(s) : s[k] \in WhiteSpace

\* s.replace(/\n?```\s*$/, ''): the leftmost match runs to the end of s
StripFenceClose(s) ==
    LET hits == {i \in 1..Len(s) : EndFenceAt(s, i)}
    IN  IF hits = {} THEN s
        ELSE SubSeq(s, 1, (CHOOSE i \in hits : \A h \in hits : i <= h) - 1)

\* responseText.match(/\{[\s\S]*\}/): from the first opening brace to the
\* last closing brace after it; null when there is none
BraceMatch(s) ==
    LET opens == {i \in 1..Len(s) : s[i] = "{"}
        first == CHOOSE i \in opens : \A o \in opens : i <= o
        closes == {i \in 1..Len(s) : s[i] = "}" /\ i > first}
        last == CHOOSE i \in closes : \A c \in closes : i >= c
    IN  IF opens = {} \/ closes = {} THEN Null
        ELSE JStr(SubSeq(s, first, last))

(***************************************************************************)
(* JSON.parse, by recursive descent over the text.  Numbers are the        *)
(* integers (an optional minus sign, then 0 or a digit string without a    *)
(* leading zero); the string escapes are those of the quote, the           *)
(* backslash, the slash, the newline and the tab.  A parse returns         *)
(* [ok, v, i]: success, the value and the next position.                   *)
(***************************************************************************)
Digits == {"0", "1", "2", "3", "4", "5", "6", "7", "8", "9"}

DigitVal(c) ==
    CASE c = "0" -> 0 [] c = "1" -> 1 [] c = "2" -> 2 [] c = "3" -> 3
      [] c = "4" -> 4 [] c = "5" -> 5 [] c = "6" -> 6 [] c = "7" -> 7
      [] c = "8" -> 8 [] c = "9" -> 9

ParseFail == [ok |-> FALSE, v |-> Undefined, i |-> 0]
ParseOk(val, next) == [ok |-> TRUE, v |-> val, i |-> next]

RECURSIVE SkipWs(_, _)
SkipWs(s, i) ==
    IF i <= Len(s) /\ s[i] \in WhiteSpace THEN SkipWs(s, i + 1) ELSE i

Unescape(c) ==
    CASE c = "n" -> "\n" [] c = "t" -> "\t" [] OTHER -> c

\* the characters after an opening quote, up to the closing quote
RECURSIVE ScanString(_, _, _)
ScanString(s, i, acc) ==
    IF i > Len(s) THEN ParseFail
    ELSE IF s[i] = "\"" THEN ParseOk(JStr(acc), i + 1)
    ELSE IF s[i] = "\\"
         THEN IF i + 1 <= Len(s) /\ s[i + 1] \in {"\"", "\\", "/", "n", "t"}
              THEN ScanString(s, i + 2, Append(acc, Unescape(s[i + 1])))
              ELSE ParseFail
    ELSE IF s[i] \in {"\n", "\t", "\r"} THEN ParseFail
    ELSE ScanString(s, i + 1, Append(acc, s[i]))

RECURSIVE ScanDigits(_, _, _)
ScanDigits(s, i, acc) ==
    IF i <= Len(s) /\ s[i] \in Digits
    THEN ScanDigits(s, i + 1, 10 * acc + DigitVal(s[i]))
    ELSE ParseOk(JNum(acc), i)

ParseNumber(s, i) ==
    LET neg == s[i] = "-"
        d == IF neg THEN i + 1 ELSE i
    IN  IF d > Len(s) \/ s[d] \notin Digits THEN ParseFail
        ELSE IF s[d] = "0" THEN ParseOk(JNum(0), d + 1)
        ELSE LET r == ScanDigits(s, d, 0)
             IN  ParseOk(JNum(IF neg THEN 0 - r.v.v ELSE r.v.v), r.i)

RECURSIVE ParseValue(_, _)
RECURSIVE ParseElements(_, _, _)
RECURSIVE ParseMembers(_, _, _)

ParseValue(s, i0) ==
    LET i == SkipWs(s, i0)
    IN  IF i > Len(s) THEN ParseFail
        ELSE IF s[i] = "{"
             THEN LET j == SkipWs(s, i + 1)
                  IN  IF j <= Len(s) /\ s[j] = "}"
                      THEN ParseOk(JObj(EmptyObj), j + 1)
                      ELSE ParseMembers(s, j, EmptyObj)
        ELSE IF s[i] = "["
             THEN LET j == SkipWs(s, i + 1)
                  IN  IF j <= Len(s) /\ s[j] = "]"
                      THEN ParseOk(JArr(<<>>), j + 1)
                      ELSE ParseElements(s, j, <<>>)
        ELSE IF s[i] = "\"" THEN ScanString(s, i + 1, <<>>)
        ELSE IF StartsWithAt(s, i, LIT_TRUE)
             THEN ParseOk(JBool(TRUE), i + Len(LIT_TRUE))
        ELSE IF StartsWithAt(s, i, LIT_FALSE)
             THEN ParseOk(JBool(FALSE), i + Len(LIT_FALSE))
        ELSE IF StartsWithAt(s, i, LIT_NULL)
             THEN ParseOk(Null, i + Len(LIT_NULL))
        ELSE IF s[i] = "-" \/ s[i] \in Digits THEN ParseNumber(s, i)
        ELSE ParseFail

\* the elements of an array and its closing bracket
ParseElements(s, i, acc) ==
    LET r == ParseValue(s, i)
        j == SkipWs(s, r.i)
    IN  IF ~r.ok \/ j > Len(s) THEN ParseFail
        ELSE IF s[j] = "," THEN ParseElements(s, j + 1, Append(acc, r.v))
        ELSE IF s[j] = "]" THEN ParseOk(JArr(Append(acc, r.v)), j + 1)
        ELSE ParseFail

\* the members of an object and its closing brace: a repeated key keeps
\* its last value
ParseMembers(s, i, acc) ==
    LET q == SkipWs(s, i)
        key == ScanString(s, q + 1, <<>>)
        c == SkipWs(s, key.i)
        r == ParseValue(s, c + 1)
        j == SkipWs(s, r.i)
        obj == PutProp(acc, key.v.v, r.v)
    IN  IF q > Len(s) \/ s[q] # "\"" THEN ParseFail
        ELSE IF ~key.ok \/ c > Len(s) THEN ParseFail
        ELSE IF s[c] # ":" THEN ParseFail
        ELSE IF ~r.ok \/ j > Len(s) THEN ParseFail
        ELSE IF s[j] = "," THEN ParseMembers(s, j + 1, obj)
        ELSE IF s[j] = "}" THEN ParseOk(JObj(obj), j + 1)
        ELSE ParseFail

\* JSON.parse(text): [ok |-> FALSE] stands for the SyntaxError it throws
JSONParse(s) ==
    LET r == ParseValue(s, 1)
    IN  IF r.ok /\ SkipWs(s, r.i) > Len(s)
        THEN [ok |-> TRUE, v |-> r.v]
        ELSE [ok |-> FALSE, v |-> Undefined]

(***************************************************************************)
(* Response normalization: the fallback chain applied to the model's       *)
(* reply.  A result is [threw, transcript, analytics]; threw names the     *)
(* exception leaving the stage, "none" when it completes.                  *)
(***************************************************************************)
Fields(tr, an) == [threw |-> "none", transcript |-> tr, analytics |-> an]
Thrown(kind) == [threw |-> kind, transcript |-> JStr(<<>>), analytics |-> JStr(<<>>)]

\* the four replaces between the two trims
StripFences(responseText) ==
    Trim(StripFenceClose(StripFenceOpen(StripFenceJson(Trim(responseText)))))

\* the body of both try blocks: parsedData = JSON.parse(text);
\* transcript = parsedData.transcript || ''; analytics = parsedData.analytics || ''
ExtractFields(text) ==
    LET parsed == JSONParse(text)
    IN  IF ~parsed.ok THEN Thrown("SyntaxError")
        ELSE IF ThrowsOnAccess(parsed.v) THEN Thrown("TypeError")
        ELSE Fields(Or(GetProp(parsed.v, KEY_TRANSCRIPT), JStr(<<>>)),
                    Or(GetProp(parsed.v, KEY_ANALYTICS), JStr(<<>>)))

\* variant of HalfPoint: rounds up
HalfPoint_Ceil(responseText) == (Len(responseText) + 1) \div 2

\* Math.floor(responseText.length / 2)
HalfPoint(responseText) == Len(responseText) \div 2

\* variant of Fallback: without a brace-delimited match the whole reply is
\* the transcript
Fallback_WholeText(responseText, unable) ==
    LET jsonMatch == BraceMatch(responseText)
        inner == ExtractFields(jsonMatch.v)
    IN  IF Truthy(jsonMatch) /\ inner.threw = "none" THEN inner
        ELSE Fields(JStr(responseText), JStr(unable))

\* the catch (parseError) block: the brace-delimited search in the raw reply
Fallback(responseText, unable) ==
    LET jsonMatch == BraceMatch(responseText)
        inner == ExtractFields(jsonMatch.v)
        halfPoint == HalfPoint(responseText)
    IN  IF Truthy(jsonMatch)
        THEN IF inner.threw = "none" THEN inner
             ELSE Fields(JStr(responseText), JStr(unable))
        ELSE Fields(JStr(Substring(responseText, 0, halfPoint)),
                    JStr(SubstringFrom(responseText, halfPoint)))

\* variant of Normalize: the catch handles a SyntaxError only, so the
\* TypeError of reading a property of null leaves the stage
Normalize_SyntaxErrorOnly(responseText, unable) ==
    IF responseText.t # "string" THEN Thrown("TypeError")
    ELSE LET direct == ExtractFields(StripFences(responseText.v))
         IN  IF direct.threw = "none" THEN direct
             ELSE IF direct.threw = "TypeError" THEN Thrown("TypeError")
             ELSE Fallback(responseText.v, unable)

\* variant of Normalize: the brace-delimited search comes before the direct
\* parse
Normalize_BraceFirst(responseText, unable) ==
    IF responseText.t # "string" THEN Thrown("TypeError")
    ELSE LET direct == ExtractFields(StripFences(responseText.v))
         IN  IF Truthy(BraceMatch(responseText.v))
             THEN Fallback(responseText.v, unable)
             ELSE IF direct.threw = "none" THEN direct
             ELSE Fallback(responseText.v, unable)

\* from const responseText = result.text to the end of the outer parse try;
\* responseText.trim() throws a TypeError when the reply carries no text, and
\* catch (parseError) catches whatever the direct parse throws
Normalize(responseText, unable) ==
    IF responseText.t # "string" THEN Thrown("TypeError")
    ELSE LET direct == ExtractFields(StripFences(responseText.v))
         IN  IF direct.threw = "none" THEN direct
             ELSE Fallback(responseText.v, unable)

(***************************************************************************)
(* Requests, files and errors.                                             *)
(***************************************************************************)
ERROR_NAME ==
    <<"E", "r", "r", "o", "r">>
TYPE_ERROR_NAME ==
    <<"T", "y", "p", "e", "E", "r", "r", "o", "r">>
COLON_SPACE ==
    <<":", " ">>
MSG_NOT_FORM_DATA ==
    <<"F", "a", "i", "l", "e", "d", " ", "t", "o", " ", "p", "a", "r", "s", "e", " ", "b", "o",
      "d", "y", " ", "a", "s", " ", "F", "o", "r", "m", "D", "a", "t", "a", ".">>
MSG_NO_ARRAY_BUFFER ==
    <<"f", "i", "l", "e", ".", "a", "r", "r", "a", "y", "B", "u", "f", "f", "e", "r", " ", "i",
      "s", " ", "n", "o", "t", " ", "a", " ", "f", "u", "n", "c", "t", "i", "o", "n">>
MSG_TRIM_UNDEFINED ==
    <<"C", "a", "n", "n", "o", "t", " ", "r", "e", "a", "d", " ", "p", "r", "o", "p", "e", "r",
      "t", "i", "e", "s", " ", "o", "f", " ", "u", "n", "d", "e", "f", "i", "n", "e", "d", " ",
      "(", "r", "e", "a", "d", "i", "n", "g", " ", "'", "t", "r", "i", "m", "'", ")">>
MSG_QUOTA ==
    <<"q", "u", "o", "t", "a", " ", "e", "x", "c", "e", "e", "d", "e", "d">>
SAMPLE_KEY ==
    <<"A", "I", "z", "a", "S", "y", "D", "-", "0", "1", "2", "3", "4", "5", "6", "7", "8", "9",
      "a", "b", "c", "d", "e", "f">>
FILE_NAME ==
    <<"m", "e", "e", "t", "i", "n", "g", ".", "m", "p", "4">>
MIME_TYPE ==
    <<"v", "i", "d", "e", "o", "/", "m", "p", "4">>
TEXT_FIELD ==
    <<"x">>

\* the endpoint variants: the three current routes and the earlier
\* analyze-video route, whose checks, normalization and responses are the
\* same code with the 20MB cap; the client library is taken to construct and
\* to settle its call in each of them
Variants == {"analyze-video", "analyze-audio", "video-analytics", "analyze-video-v1"}

\* the multipart field each variant reads
FieldName(v) == IF v = "analyze-audio" THEN "audio" ELSE "video"

\* const maxSize
MaxSize(v) ==
    IF v \in {"analyze-video", "analyze-video-v1"}
    THEN 20 * 1024 * 1024
    ELSE 100 * 1024 * 1024

NoFileMessage(v) == IF v = "analyze-audio" THEN NO_AUDIO_FILE ELSE NO_VIDEO_FILE
TooLargeMessage(v) == IF v = "analyze-audio" THEN TOO_LARGE_AUDIO ELSE TOO_LARGE_VIDEO
UnableMessage(v) == IF v = "analyze-audio" THEN UNABLE_AUDIO ELSE UNABLE_VIDEO
FailedMessage(v) == IF v = "analyze-audio" THEN FAILED_AUDIO ELSE FAILED_VIDEO

\* a File of the multipart body
File(size) == [t |-> "file", name |-> FILE_NAME, size |-> size, type |-> MIME_TYPE]

\* an Error object and its toString()
Err(name, message) == [name |-> name, message |-> message]
ErrToString(e) ==
    IF e.message = <<>> THEN e.name ELSE e.name \o COLON_SPACE \o e.message

\* formData.get(field): the entry of that name, null when there is none
FormDataGet(b, field) == IF b.name = field THEN b.value ELSE Null

\* variant of TooLarge: rejects a file whose size equals the cap
TooLarge_AtCap(f, max) == f.t = "file" /\ f.size >= max

\* file.size > maxSize: a text entry has no size and undefined > n is false
TooLarge(f, max) == f.t = "file" /\ f.size > max

\* variant of KeyMissing: only an unset variable counts as missing
KeyMissing_UnsetOnly(key) == key = Undefined

\* !process.env.GEMINI_API_KEY
KeyMissing(key) == ~Truthy(key)

\* variant of FileMissing: compares with undefined instead of testing falsiness
FileMissing_UndefinedOnly(f) == f = Undefined

\* !file
FileMissing(f) == ~Truthy(f)

RECURSIVE NatToText(_)
NatToText(n) ==
    LET d == <<"0", "1", "2", "3", "4", "5", "6", "7", "8", "9">>[(n % 10) + 1]
    IN  IF n < 10 THEN <<d>> ELSE Append(NatToText(n \div 10), d)

\* (file.size / (1024 * 1024)).toFixed(2) followed by ' MB'
FileSizeText(size) ==
    LET mb == 1024 * 1024
        whole == size \div mb
        cents == (2 * 100 * (size % mb) + mb) \div (2 * mb)
        w == IF cents = 100 THEN whole + 1 ELSE whole
        c == IF cents = 100 THEN 0 ELSE cents
    IN  NatToText(w) \o <<".">> \o NatToText(c \div 10) \o NatToText(c % 10) \o MB_SUFFIX

\* NextResponse.json(body, {status})
Json(status, body) == [status |-> status, body |-> body]

ConfigErrorResponse == Json(500, [error |-> JStr(CONFIG_ERROR)])
NoFileResponse(v) == Json(400, [error |-> JStr(NoFileMessage(v))])
TooLargeResponse(v) == Json(400, [error |-> JStr(TooLargeMessage(v))])

\* variant of ErrorResponse: the raw error text is left out
ErrorResponse_NoDetails(v, e) ==
    Json(500, [error |-> Or(JStr(e.message), JStr(FailedMessage(v)))])

\* the outer catch: error.message || 'Failed to process ...', error.toString()
ErrorResponse(v, e) ==
    Json(500, [error |-> Or(JStr(e.message), JStr(FailedMessage(v))),
               details |-> JStr(ErrToString(e))])

\* the success body
SuccessResponse(f, n) ==
    Json(200, [transcript |-> Or(n.transcript, JStr(NO_TRANSCRIPT)),
               analytics |-> Or(n.analytics, JStr(NO_ANALYTICS)),
               metadata |-> [fileName |-> JStr(f.name),
                             fileSize |-> JStr(FileSizeText(f.size)),
                             mimeType |-> JStr(f.type),
                             duration |-> JStr(NOT_AVAILABLE)],
               success |-> TRUE])

\* the response for the outcome n of the normalization: the success body,
\* or the outer catch when it threw
NormalizedResponse(v, f, n) ==
    IF n.threw = "none" THEN SuccessResponse(f, n)
    ELSE ErrorResponse(v, Err(TYPE_ERROR_NAME, MSG_TRIM_UNDEFINED))

\* the response once the model call has resolved with reply
ReplyResponse(v, f, reply) ==
    NormalizedResponse(v, f, Normalize(reply, UnableMessage(v)))

\* variant of ProbeResponse: one character fewer in the prefix
ProbeResponse_Seven(key) ==
    LET hasKey == Truthy(key)
    IN  [configured |-> hasKey,
         keyPrefix |-> IF hasKey THEN JStr(Substring(key.v, 0, 7) \o ELLIPSIS)
                       ELSE JStr(NOT_AVAILABLE)]

\* the configuration probe
ProbeResponse(key) ==
    LET hasKey == Truthy(key)
    IN  [configured |-> hasKey,
         keyPrefix |-> IF hasKey THEN JStr(Substring(key.v, 0, 8) \o ELLIPSIS)
                       ELSE JStr(NOT_AVAILABLE)]

(***************************************************************************)
(* The inputs the model draws from.                                        *)
(***************************************************************************)
J_NULL ==
    <<"n", "u", "l", "l">>
J_TRUE ==
    <<"t", "r", "u", "e">>
J_ZERO ==
    <<"0">>
J_NUMBER ==
    <<"4", "2">>
J_STRING ==
    <<"\"", "h", "i", "\"">>
J_ARRAY ==
    <<"[", "1", "]">>
J_ARRAY_OF_OBJECT ==
    <<"[", "{", "\"", "t", "r", "a", "n", "s", "c", "r", "i", "p", "t", "\"", ":", "\"", "h",
      "i", "\"", "}", "]">>
J_EMPTY_OBJECT ==
    <<"{", "}">>
J_BOTH ==
    <<"{", "\"", "t", "r", "a", "n", "s", "c", "r", "i", "p", "t", "\"", ":", "\"", "h", "i",
      "\"", ",", "\"", "a", "n", "a", "l", "y", "t", "i", "c", "s", "\"", ":", "\"", "o", "k",
      "\"", "}">>
J_SPACED ==
    <<"{", " ", "\"", "t", "r", "a", "n", "s", "c", "r", "i", "p", "t", "\"", " ", ":", " ",
      "\"", "h", "i", "\"", ",", " ", "\"", "a", "n", "a", "l", "y", "t", "i", "c", "s", "\"",
      " ", ":", " ", "\"", "o", "k", "\"", " ", "}">>
J_TRANSCRIPT_ONLY ==
    <<"{", "\"", "t", "r", "a", "n", "s", "c", "r", "i", "p", "t", "\"", ":", "\"", "h", "i",
      "\"", "}">>
J_EMPTY_TRANSCRIPT ==
    <<"{", "\"", "t", "r", "a", "n", "s", "c", "r", "i", "p", "t", "\"", ":", "\"", "\"", ",",
      "\"", "a", "n", "a", "l", "y", "t", "i", "c", "s", "\"", ":", "\"", "o", "k", "\"", "}">>
J_NUMBER_FIELD ==
    <<"{", "\"", "t", "r", "a", "n", "s", "c", "r", "i", "p", "t", "\"", ":", "5", ",", "\"",
      "a", "n", "a", "l", "y", "t", "i", "c", "s", "\"", ":", "\"", "o", "k", "\"", "}">>
J_OBJECT_FIELD ==
    <<"{", "\"", "t", "r", "a", "n", "s", "c", "r", "i", "p", "t", "\"", ":", "\"", "h", "i",
      "\"", ",", "\"", "a", "n", "a", "l", "y", "t", "i", "c", "s", "\"", ":", "{", "\"", "m",
      "o", "o", "d", "\"", ":", "\"", "o", "k", "\"", "}", "}">>
J_BRACE_IN_STRING ==
    <<"{", "\"", "t", "r", "a", "n", "s", "c", "r", "i", "p", "t", "\"", ":", "\"", "a", "}",
      "b", "\"", ",", "\"", "a", "n", "a", "l", "y", "t", "i", "c", "s", "\"", ":", "\"", "o",
      "k", "\"", "}">>
J_SUMMARY ==
    <<"{", "\"", "s", "u", "m", "m", "a", "r", "y", "\"", ":", "\"", "s", "\"", ",", "\"", "t",
      "o", "p", "i", "c", "s", "\"", ":", "[", "]", "}">>
T_NO_JSON ==
    <<"n", "o", " ", "j", "s", "o", "n", " ", "h", "e", "r", "e">>
T_ONE_CHAR ==
    <<"x">>
T_BAD_OBJECT ==
    <<"{", "b", "a", "d", "}">>
T_UNBALANCED ==
    <<"{", "\"", "t", "r", "a", "n", "s", "c", "r", "i", "p", "t", "\"", ":", "\"", "h", "i",
      "\"">>
T_REVERSED ==
    <<"}", "{">>
P_FENCE_JSON ==
    <<Backtick, Backtick, Backtick, "j", "s", "o", "n", "\n">>
P_FENCE ==
    <<Backtick, Backtick, Backtick, "\n">>
P_FENCE_JSON_TIGHT ==
    <<Backtick, Backtick, Backtick, "j", "s", "o", "n">>
P_PROSE ==
    <<"H", "e", "r", "e", ":", " ">>
S_FENCE ==
    <<"\n", Backtick, Backtick, Backtick>>
S_FENCE_TIGHT ==
    <<Backtick, Backtick, Backtick>>
S_PROSE ==
    <<" ", "d", "o", "n", "e">>
S_STRAY_BRACE ==
    <<" ", ":", "}">>
P_STRAY_BRACE ==
    <<"{", ":", " ">>

\* longest credential drawn, and the most blanks put around a reply
MaxKeyLen == 12
MaxPad == 1

\* GEMINI_API_KEY: unset, empty, or a non-empty text
KeyLens == {0, 3, 8, MaxKeyLen}
EnvKeys == {Undefined} \cup {JStr(SubSeq(SAMPLE_KEY, 1, n)) : n \in KeyLens}

\* file sizes at and just over each cap
Sizes == {0} \cup {MaxSize(v) + d : v \in Variants, d \in {0, 1}}

FormValues == {JStr(<<>>), JStr(TEXT_FIELD)} \cup {File(sz) : sz \in Sizes}

\* a request body: not multipart at all, or a form with at most one entry
Bodies ==
    {[multipart |-> m, name |-> "none", value |-> Null] : m \in BOOLEAN}
    \cup {[multipart |-> TRUE, name |-> n, value |-> val] :
              n \in {"video", "audio"}, val \in FormValues}

\* valid JSON texts
JsonTexts ==
    {J_NULL, J_TRUE, J_ZERO, J_NUMBER, J_STRING, J_ARRAY, J_ARRAY_OF_OBJECT,
     J_EMPTY_OBJECT, J_BOTH, J_SPACED, J_TRANSCRIPT_ONLY, J_EMPTY_TRANSCRIPT,
     J_NUMBER_FIELD, J_OBJECT_FIELD, J_BRACE_IN_STRING, J_SUMMARY}

\* the valid JSON texts that are one object
ObjectTexts == {j \in JsonTexts : Head(j) = "{"}

\* texts that are not JSON
OtherTexts == {EMPTY_TEXT, T_NO_JSON, T_ONE_CHAR, T_BAD_OBJECT, T_UNBALANCED, T_REVERSED}

FenceOpeners == {P_FENCE_JSON, P_FENCE, P_FENCE_JSON_TIGHT}
FenceClosers == {S_FENCE, S_FENCE_TIGHT}
Before == {EMPTY_TEXT, P_PROSE, P_STRAY_BRACE} \cup FenceOpeners
After == {EMPTY_TEXT, S_PROSE, S_STRAY_BRACE} \cup FenceClosers

Pad(n) == [i \in 1..n |-> " "]

\* a fenced JSON text with n blanks around it
Fenced(n, open, json, close) == Pad(n) \o open \o json \o close \o Pad(n)

\* the texts the external model may reply with
ReplyTexts ==
    {b \o c \o a : b \in Before, c \in JsonTexts \cup OtherTexts, a \in After}
    \cup {Fenced(n, b, c, a) :
              n \in 1..MaxPad, b \in FenceOpeners, c \in JsonTexts, a \in FenceClosers}

\* result.text: a text, or undefined when the reply carries no text part
Replies == {JStr(r) : r \in ReplyTexts} \cup {Undefined}

\* what the external call may reject with: Error objects, with or without
\* a message
UpstreamErrors == {Err(ERROR_NAME, MSG_QUOTA), Err(ERROR_NAME, EMPTY_TEXT)}

(***************************************************************************)
(* State.                                                                  *)
(***************************************************************************)
VARIABLES
    env,        \* process.env.GEMINI_API_KEY
    variant,    \* the endpoint handling the current request
    body,       \* the current request's body
    pc,         \* where the handler is: idle, formData, arrayBuffer, generate, done
    file,       \* the handler's local file
    calls,      \* external model calls made for the current request
    upstream,   \* how the external call settled
    response,   \* the handler's HTTP response
    probe       \* the last response of the configuration probe

\* the upload client (one browser page)
VARIABLES
    clientFile, \* useState file: the selected file, or null
    loading,    \* useState loading
    result,     \* useState result: the body of the last 2xx response, or null
    error,      \* useState error: a message, or null
    inflight,   \* the client's requests that have not settled
    sent        \* requests the client has sent

\* concurrent requests to the analysis endpoints
VARIABLES
    handlers    \* the state of each concurrently running POST handler

clientVars == <<clientFile, loading, result, error, inflight, sent>>
concVars == <<handlers>>

vars ==
    <<env, variant, body, pc, file, calls, upstream, response, probe,
      clientVars, concVars>>

NoResponse == Json(0, [none |-> TRUE])
NoUpstream == [kind |-> "none", value |-> Undefined]
NoProbe == [configured |-> FALSE, keyPrefix |-> Undefined]

\* concurrent requests modelled
NumReqs == 2
Reqs == 1..NumReqs

\* a handler that has not been entered
IdleHandler ==
    [variant |-> "analyze-video",
     body |-> [multipart |-> TRUE, name |-> "none", value |-> Null],
     pc |-> "idle", file |-> Null, calls |-> 0,
     upstream |-> NoUpstream, response |-> NoResponse]

\* the page as first rendered
ClientIdle ==
    /\ clientFile = Null
    /\ loading = FALSE
    /\ result = Null
    /\ error = Null
    /\ inflight = {}
    /\ sent = 0

\* no request has arrived
HandlersIdle == handlers = [r \in Reqs |-> IdleHandler]

Init ==
    /\ env \in EnvKeys
    /\ variant = "analyze-video"
    /\ body = [multipart |-> TRUE, name |-> "none", value |-> Null]
    /\ pc = "idle"
    /\ file = Null
    /\ calls = 0
    /\ upstream = NoUpstream
    /\ response = NoResponse
    /\ probe = NoProbe
    /\ ClientIdle
    /\ HandlersIdle

\* POST up to await request.formData(): the credential check comes first
POST(v, b) ==
    /\ pc = "idle"
    /\ variant' = v
    /\ body' = b
    /\ file' = Null
    /\ calls' = 0
    /\ upstream' = NoUpstream
    /\ IF KeyMissing(env)
       THEN /\ response' = ConfigErrorResponse
            /\ pc' = "done"
       ELSE /\ response' = NoResponse
            /\ pc' = "formData"
    /\ UNCHANGED <<env, probe>>
    /\ UNCHANGED <<clientVars, concVars>>

\* request.formData() settles: the presence and size checks, up to
\* await file.arrayBuffer()
FormDataSettles ==
    /\ pc = "formData"
    /\ LET f == FormDataGet(body, FieldName(variant))
       IN  IF ~body.multipart
           THEN /\ response' = ErrorResponse(variant, Err(TYPE_ERROR_NAME, MSG_NOT_FORM_DATA))
                /\ pc' = "done"
                /\ file' = file
           ELSE IF FileMissing(f)
           THEN /\ response' = NoFileResponse(variant)
                /\ pc' = "done"
                /\ file' = f
           ELSE IF TooLarge(f, MaxSize(variant))
           THEN /\ response' = TooLargeResponse(variant)
                /\ pc' = "done"
                /\ file' = f
           ELSE IF f.t # "file"
           THEN /\ response' = ErrorResponse(variant, Err(TYPE_ERROR_NAME, MSG_NO_ARRAY_BUFFER))
                /\ pc' = "done"
                /\ file' = f
           ELSE /\ response' = response
                /\ pc' = "arrayBuffer"
                /\ file' = f
    /\ UNCHANGED <<env, variant, body, calls, upstream, probe>>
    /\ UNCHANGED <<clientVars, concVars>>

\* file.arrayBuffer() settles: the payload is encoded and the single
\* external call is issued
ArrayBufferSettles ==
    /\ pc = "arrayBuffer"
    /\ calls' = calls + 1
    /\ pc' = "generate"
    /\ UNCHANGED <<env, variant, body, file, upstream, response, probe>>
    /\ UNCHANGED <<clientVars, concVars>>

\* the external call resolves: normalization and the success response
GenerateResolves(reply) ==
    /\ pc = "generate"
    /\ upstream' = [kind |-> "resolved", value |-> reply]
    /\ response' = ReplyResponse(variant, file, reply)
    /\ pc' = "done"
    /\ UNCHANGED <<env, variant, body, file, calls, probe>>
    /\ UNCHANGED <<clientVars, concVars>>

\* variant of GenerateRejects: the call is issued again
GenerateRejects_Retry(e) ==
    /\ pc = "generate"
    /\ upstream' = [kind |-> "rejected", value |-> e]
    /\ calls' = calls + 1
    /\ UNCHANGED <<env, variant, body, pc, file, response, probe>>
    /\ UNCHANGED <<clientVars, concVars>>

\* the external call rejects: inner catch rethrows, outer catch responds
GenerateRejects(e) ==
    /\ pc = "generate"
    /\ upstream' = [kind |-> "rejected", value |-> e]
    /\ response' = ErrorResponse(variant, e)
    /\ pc' = "done"
    /\ UNCHANGED <<env, variant, body, file, calls, probe>>
    /\ UNCHANGED <<clientVars, concVars>>

\* the response is sent and the request's state is discarded
Sent ==
    /\ pc = "done"
    /\ pc' = "idle"
    /\ file' = Null
    /\ calls' = 0
    /\ upstream' = NoUpstream
    /\ response' = NoResponse
    /\ UNCHANGED <<env, variant, body, probe>>
    /\ UNCHANGED <<clientVars, concVars>>

\* the configuration probe
GET ==
    /\ probe' = ProbeResponse(env)
    /\ UNCHANGED <<env, variant, body, pc, file, calls, upstream, response>>
    /\ UNCHANGED <<clientVars, concVars>>

Next ==
    \/ \E v \in Variants, b \in Bodies : POST(v, b)
    \/ FormDataSettles
    \/ ArrayBufferSettles
    \/ \E reply \in Replies : GenerateResolves(reply)
    \/ \E e \in UpstreamErrors : GenerateRejects(e)
    \/ Sent
    \/ GET

Spec == Init /\ [][Next]_vars

(***************************************************************************)
(* The upload client: the VideoAnalytics component, its two handlers and   *)
(* the settling of its request.                                            *)
(***************************************************************************)
SELECT_VALID_VIDEO ==
    <<"P", "l", "e", "a", "s", "e", " ", "s", "e", "l", "e", "c", "t", " ", "a", " ", "v", "a",
      "l", "i", "d", " ", "v", "i", "d", "e", "o", " ", "f", "i", "l", "e">>
SELECT_VIDEO_FIRST ==
    <<"P", "l", "e", "a", "s", "e", " ", "s", "e", "l", "e", "c", "t", " ", "a", " ", "v", "i",
      "d", "e", "o", " ", "f", "i", "l", "e", " ", "f", "i", "r", "s", "t">>
FAILED_TO_ANALYZE ==
    <<"F", "a", "i", "l", "e", "d", " ", "t", "o", " ", "a", "n", "a", "l", "y", "z", "e", " ",
      "v", "i", "d", "e", "o">>
VIDEO_TYPE_PREFIX ==
    <<"v", "i", "d", "e", "o", "/">>
MSG_FAILED_TO_FETCH ==
    <<"F", "a", "i", "l", "e", "d", " ", "t", "o", " ", "f", "e", "t", "c", "h">>
MSG_NOT_JSON ==
    <<"U", "n", "e", "x", "p", "e", "c", "t", "e", "d", " ", "t", "o", "k", "e", "n", " ", "'",
      "<", "'", ",", " ", "\"", "<", "h", "t", "m", "l", ">", "\"", " ", "i", "s", " ", "n",
      "o", "t", " ", "v", "a", "l", "i", "d", " ", "J", "S", "O", "N">>
OTHER_FILE_NAME ==
    <<"d", "e", "m", "o", ".", "m", "p", "4">>
TEXT_FILE_NAME ==
    <<"n", "o", "t", "e", "s", ".", "t", "x", "t">>
TEXT_MIME_TYPE ==
    <<"t", "e", "x", "t", "/", "p", "l", "a", "i", "n">>

\* uploads the client makes at most
MaxUploads == 2

serverVars == <<variant, body, pc, file, calls, upstream, response, probe>>

ClientFile(name, size, type) ==
    [t |-> "file", name |-> name, size |-> size, type |-> type]

\* e.target.files?.[0]: nothing, two videos (one over the endpoint's cap)
\* and a file that is not a video
Selections ==
    {Undefined,
     ClientFile(FILE_NAME, 1, MIME_TYPE),
     ClientFile(OTHER_FILE_NAME, MaxSize("analyze-video") + 1, MIME_TYPE),
     ClientFile(TEXT_FILE_NAME, 1, TEXT_MIME_TYPE)}

\* the replies of the model used behind the client
ClientReplyTexts == {J_BOTH, T_NO_JSON}

\* their normalization by the endpoint
ClientNormalized ==
    {Normalize(JStr(r), UnableMessage("analyze-video")) : r \in ClientReplyTexts}

\* what POST /api/analyze-video answers to a form carrying f as video
ServerResponses(f) ==
    LET v == "analyze-video"
    IN  IF KeyMissing(env) THEN {ConfigErrorResponse}
        ELSE IF TooLarge(f, MaxSize(v)) THEN {TooLargeResponse(v)}
        ELSE {ErrorResponse(v, e) : e \in UpstreamErrors}
             \cup {NormalizedResponse(v, f, n) : n \in ClientNormalized}

\* an HTTP response as fetch delivers it: status, whether the body is JSON,
\* and the parsed body
Http(r) == [status |-> r.status, json |-> TRUE, body |-> r.body]
HtmlErrorPage == [status |-> 502, json |-> FALSE, body |-> [none |-> TRUE]]
JsonWithoutError == [status |-> 404, json |-> TRUE, body |-> [code |-> JNum(404)]]
NoHttp == [status |-> 0, json |-> FALSE, body |-> [none |-> TRUE]]

\* the responses fetch may resolve with: the endpoint's, or an intermediary's
FetchOutcomes(f) ==
    {Http(r) : r \in ServerResponses(f)} \cup {HtmlErrorPage, JsonWithoutError}

\* response.ok
Ok(resp) == resp.status >= 200 /\ resp.status <= 299

\* data.error
DataError(data) == IF "error" \in DOMAIN data THEN data.error ELSE Undefined

\* handleFileChange
handleFileChange(selectedFile) ==
    /\ IF Truthy(selectedFile) /\ StartsWithAt(selectedFile.type, 1, VIDEO_TYPE_PREFIX)
       THEN /\ clientFile' = selectedFile
            /\ error' = Null
            /\ result' = Null
       ELSE /\ error' = JStr(SELECT_VALID_VIDEO)
            /\ UNCHANGED <<clientFile, result>>
    /\ UNCHANGED <<loading, inflight, sent>>
    /\ UNCHANGED <<env, serverVars, concVars>>

\* variant of ButtonDisabled: loading does not disable the button
ButtonDisabled_FileOnly(f, l) == ~Truthy(f)

\* disabled={!file || loading}
ButtonDisabled(f, l) == ~Truthy(f) \/ l

\* a click on the enabled button: handleUpload up to await fetch
handleUpload ==
    /\ ~ButtonDisabled(clientFile, loading)
    /\ sent < MaxUploads
    /\ IF ~Truthy(clientFile)
       THEN /\ error' = JStr(SELECT_VIDEO_FIRST)
            /\ UNCHANGED <<loading, inflight, sent>>
       ELSE /\ loading' = TRUE
            /\ error' = Null
            /\ inflight' = inflight \cup
                   {[id |-> sent + 1, file |-> clientFile, stage |-> "fetch",
                     response |-> NoHttp]}
            /\ sent' = sent + 1
    /\ UNCHANGED <<clientFile, result>>
    /\ UNCHANGED <<env, serverVars, concVars>>

\* fetch resolves: on to await response.json()
FetchResolves(q, resp) ==
    /\ q \in inflight
    /\ q.stage = "fetch"
    /\ inflight' = (inflight \ {q}) \cup {[q EXCEPT !.stage = "json", !.response = resp]}
    /\ UNCHANGED <<clientFile, loading, result, error, sent>>
    /\ UNCHANGED <<env, serverVars, concVars>>

\* fetch rejects (the network failed): catch, then finally
FetchRejects(q) ==
    /\ q \in inflight
    /\ q.stage = "fetch"
    /\ error' = JStr(MSG_FAILED_TO_FETCH)
    /\ loading' = FALSE
    /\ inflight' = inflight \ {q}
    /\ UNCHANGED <<clientFile, result, sent>>
    /\ UNCHANGED <<env, serverVars, concVars>>

\* variant of JsonSettles: loading is reset on success only (no finally)
JsonSettles_NoFinally(q) ==
    /\ q \in inflight
    /\ q.stage = "json"
    /\ IF ~q.response.json
       THEN /\ error' = JStr(MSG_NOT_JSON)
            /\ UNCHANGED <<result, loading>>
       ELSE IF ~Ok(q.response)
       THEN /\ error' = Or(DataError(q.response.body), JStr(FAILED_TO_ANALYZE))
            /\ UNCHANGED <<result, loading>>
       ELSE /\ result' = q.response.body
            /\ error' = error
            /\ loading' = FALSE
    /\ inflight' = inflight \ {q}
    /\ UNCHANGED <<clientFile, sent>>
    /\ UNCHANGED <<env, serverVars, concVars>>

\* response.json() settles: the rest of the try, catch and finally
JsonSettles(q) ==
    /\ q \in inflight
    /\ q.stage = "json"
    /\ IF ~q.response.json
       THEN /\ error' = JStr(MSG_NOT_JSON)
            /\ result' = result
       ELSE IF ~Ok(q.response)
       THEN /\ error' = Or(DataError(q.response.body), JStr(FAILED_TO_ANALYZE))
            /\ result' = result
       ELSE /\ result' = q.response.body
            /\ error' = error
    /\ loading' = FALSE
    /\ inflight' = inflight \ {q}
    /\ UNCHANGED <<clientFile, sent>>
    /\ UNCHANGED <<env, serverVars, concVars>>

\* the page served by a process with or without the credential
InitClient ==
    /\ Init
    /\ env \in {Undefined, JStr(SubSeq(SAMPLE_KEY, 1, MaxKeyLen))}

NextClient ==
    \/ \E selectedFile \in Selections : handleFileChange(selectedFile)
    \/ handleUpload
    \/ \E q \in inflight : \E resp \in FetchOutcomes(q.file) : FetchResolves(q, resp)
    \/ \E q \in inflight : FetchRejects(q)
    \/ \E q \in inflight : JsonSettles(q)

SpecClient == InitClient /\ [][NextClient]_vars

\* every request the client sends settles
SpecClientFair ==
    /\ SpecClient
    /\ WF_vars(\E q \in inflight :
                  \/ FetchRejects(q)
                  \/ \E resp \in FetchOutcomes(q.file) : FetchResolves(q, resp))
    /\ WF_vars(\E q \in inflight : JsonSettles(q))

(***************************************************************************)
(* Concurrent requests: each request in Reqs runs the POST handler of its  *)
(* endpoint; the steps of different requests interleave at the awaits.     *)
(* The handler's variables are locals of the invocation, one set per       *)
(* request; process.env is the only thing the invocations have in common.  *)
(***************************************************************************)
ConcVariants == {"analyze-video", "video-analytics"}

\* no entry, a video under both caps, a video between the two caps
ConcBodies ==
    {[multipart |-> TRUE, name |-> "none", value |-> Null],
     [multipart |-> TRUE, name |-> "video", value |-> File(0)],
     [multipart |-> TRUE, name |-> "video",
      value |-> File(MaxSize("analyze-video") + 1)]}

ConcReplies == {JStr(J_BOTH), JStr(T_NO_JSON)}

\* POST: the credential check, up to await request.formData()
ConcPOST(r, v, b) ==
    /\ handlers[r].pc = "idle"
    /\ handlers' = [handlers EXCEPT ![r] =
           [variant |-> v, body |-> b, file |-> Null, calls |-> 0,
            upstream |-> NoUpstream,
            pc |-> IF KeyMissing(env) THEN "done" ELSE "formData",
            response |-> IF KeyMissing(env) THEN ConfigErrorResponse
                         ELSE NoResponse]]
    /\ UNCHANGED <<env, serverVars, clientVars>>

\* request.formData() settles: the presence and size checks
ConcFormDataSettles(r) ==
    /\ handlers[r].pc = "formData"
    /\ LET h == handlers[r]
           f == FormDataGet(h.body, FieldName(h.variant))
       IN  handlers' = [handlers EXCEPT ![r] =
               IF ~h.body.multipart
               THEN [h EXCEPT !.pc = "done",
                              !.response = ErrorResponse(h.variant,
                                  Err(TYPE_ERROR_NAME, MSG_NOT_FORM_DATA))]
               ELSE IF FileMissing(f)
               THEN [h EXCEPT !.pc = "done", !.file = f,
                              !.response = NoFileResponse(h.variant)]
               ELSE IF TooLarge(f, MaxSize(h.variant))
               THEN [h EXCEPT !.pc = "done", !.file = f,
                              !.response = TooLargeResponse(h.variant)]
               ELSE IF f.t # "file"
               THEN [h EXCEPT !.pc = "done", !.file = f,
                              !.response = ErrorResponse(h.variant,
                                  Err(TYPE_ERROR_NAME, MSG_NO_ARRAY_BUFFER))]
               ELSE [h EXCEPT !.pc = "arrayBuffer", !.file = f]]
    /\ UNCHANGED <<env, serverVars, clientVars>>

\* file.arrayBuffer() settles: the external call is issued
ConcArrayBufferSettles(r) ==
    /\ handlers[r].pc = "arrayBuffer"
    /\ handlers' = [handlers EXCEPT ![r].pc = "generate",
                                    ![r].calls = handlers[r].calls + 1]
    /\ UNCHANGED <<env, serverVars, clientVars>>

\* variant of ConcGenerateResolves: file is a variable of the module, holding
\* the file of whichever request passed the checks last
ConcGenerateResolves_ModuleFile(r, reply) ==
    /\ handlers[r].pc = "generate"
    /\ LET h == handlers[r]
           others == {o \in Reqs : handlers[o].file.t = "file"}
           last == CHOOSE o \in others : \A x \in others : x <= o
       IN  handlers' = [handlers EXCEPT ![r] =
               [h EXCEPT !.pc = "done",
                         !.upstream = [kind |-> "resolved", value |-> reply],
                         !.response = ReplyResponse(h.variant, handlers[last].file, reply)]]
    /\ UNCHANGED <<env, serverVars, clientVars>>

\* the external call resolves: normalization and the success response
ConcGenerateResolves(r, reply) ==
    /\ handlers[r].pc = "generate"
    /\ LET h == handlers[r]
       IN  handlers' = [handlers EXCEPT ![r] =
               [h EXCEPT !.pc = "done",
                         !.upstream = [kind |-> "resolved", value |-> reply],
                         !.response = ReplyResponse(h.variant, h.file, reply)]]
    /\ UNCHANGED <<env, serverVars, clientVars>>

\* the external call rejects: the outer catch responds
ConcGenerateRejects(r, e) ==
    /\ handlers[r].pc = "generate"
    /\ LET h == handlers[r]
       IN  handlers' = [handlers EXCEPT ![r] =
               [h EXCEPT !.pc = "done",
                         !.upstream = [kind |-> "rejected", value |-> e],
                         !.response = ErrorResponse(h.variant, e)]]
    /\ UNCHANGED <<env, serverVars, clientVars>>

InitConc ==
    /\ Init
    /\ env \in {Undefined, JStr(SubSeq(SAMPLE_KEY, 1, MaxKeyLen))}

NextConc ==
    \/ \E r \in Reqs, v \in ConcVariants, b \in ConcBodies : ConcPOST(r, v, b)
    \/ \E r \in Reqs : ConcFormDataSettles(r)
    \/ \E r \in Reqs : ConcArrayBufferSettles(r)
    \/ \E r \in Reqs, reply \in ConcReplies : ConcGenerateResolves(r, reply)
    \/ \E r \in Reqs, e \in UpstreamErrors : ConcGenerateRejects(r, e)

SpecConc == InitConc /\ [][NextConc]_vars

(***************************************************************************)
(* Properties.                                                             *)
(***************************************************************************)
\* what the properties say of the request under way
CredentialAbsent == env = Undefined \/ env = JStr(<<>>)
ExpectedField == IF variant = "analyze-audio" THEN "audio" ELSE "video"
SizeCap ==
    IF variant \in {"analyze-audio", "video-analytics"}
    THEN 100 * 1024 * 1024
    ELSE 20 * 1024 * 1024
Done == pc = "done"
FileSupplied == body.multipart /\ body.name = ExpectedField /\ body.value.t = "file"
RepliedText == Done /\ upstream.kind = "resolved" /\ upstream.value.t = "string"
Succeeded == Done /\ response.status = 200

\* C1: with the credential absent or empty, every POST ends with status 500
\* and the configuration error, whatever its body, and the handler never gets
\* past the credential check: no form is read and no external call is made.
C1_CredentialCheckedFirst ==
    CredentialAbsent =>
        /\ pc \in {"idle", "done"}
        /\ calls = 0
        /\ upstream = NoUpstream
        /\ Done => response = Json(500, [error |-> JStr(CONFIG_ERROR)])

\* C1 witness: an empty credential and an oversized upload, answered 500
C1_Witness ==
    /\ Done
    /\ env = JStr(<<>>)
    /\ FileSupplied
    /\ body.value.size > SizeCap
    /\ response.status = 500

C3_MissingFile ==
    (Done /\ ~CredentialAbsent /\ body.multipart /\ body.name # ExpectedField) =>
        /\ response =
               Json(400, [error |-> JStr(IF variant = "analyze-audio"
                                         THEN NO_AUDIO_FILE ELSE NO_VIDEO_FILE)])
        /\ calls = 0
        /\ upstream = NoUpstream

\* C3 witness: the audio endpoint got a form whose only file is named video
C3_Witness ==
    /\ Done
    /\ ~CredentialAbsent
    /\ variant = "analyze-audio"
    /\ body.name = "video"
    /\ body.value.t = "file"
    /\ response.status = 400

\* C4: when the external call rejects, the response is 500 and its body has
\* exactly an error message (the error's message, or the fixed failure
\* message when that is empty) and details holding the error's text.
C4_UpstreamFailure ==
    (Done /\ upstream.kind = "rejected") =>
        /\ response.status = 500
        /\ DOMAIN response.body = {"error", "details"}
        /\ response.body.error.t = "string"
        /\ response.body.error.v # <<>>
        /\ (upstream.value.message # <<>>) =>
               (response.body.error.v = upstream.value.message)
        /\ response.body.details = JStr(ErrToString(upstream.value))

\* C4 witness: a rejection with an empty message, answered with the fixed one
C4_Witness ==
    /\ Done
    /\ upstream.kind = "rejected"
    /\ upstream.value.message = <<>>
    /\ response.status = 500
    /\ response.body.error.v \in {FAILED_VIDEO, FAILED_AUDIO}

\* C5: every text reply of the model ends in a 200 response with success
\* true: no exception leaves normalization.
C5_NoExceptionEscapes ==
    RepliedText =>
        /\ response.status = 200
        /\ DOMAIN response.body = {"transcript", "analytics", "metadata", "success"}
        /\ response.body.success = TRUE

\* C5 witness: the reply null, whose property read throws inside the try
C5_Witness ==
    /\ RepliedText
    /\ upstream.value.v = J_NULL
    /\ response.status = 200

\* the transcript and analytics a success response would carry for a reply
ResponseFields(reply) ==
    LET r == ReplyResponse(variant, file, JStr(reply))
    IN  <<r.status, r.body.transcript, r.body.analytics>>

\* the transcript and analytics of the response under way
RespondedFields ==
    <<response.status, response.body.transcript, response.body.analytics>>

\* two values are the same value: of the same type and equal
SameValue(a, b) == a.t = b.t /\ a = b

\* two responses carry the same status, transcript and analytics
SameFields(x, y) ==
    x[1] = y[1] /\ SameValue(x[2], y[2]) /\ SameValue(x[3], y[3])

\* C6: a valid JSON text inside fence markers (a leading fence with or
\* without the json tag, a trailing fence, blanks around) is answered with
\* the same transcript and analytics as the same text without the markers.
C6_FencedSameAsUnwrapped ==
    RepliedText =>
        \A n \in 0..MaxPad, b \in FenceOpeners, j \in JsonTexts, a \in FenceClosers :
            (upstream.value.v = Fenced(n, b, j, a)) =>
                SameFields(RespondedFields, ResponseFields(j))

\* the defaulted fields of an object text
ObjectFields(o) ==
    LET v == JSONParse(o).v
    IN  <<200,
          Or(Or(GetProp(v, KEY_TRANSCRIPT), JStr(<<>>)), JStr(NO_TRANSCRIPT)),
          Or(Or(GetProp(v, KEY_ANALYTICS), JStr(<<>>)), JStr(NO_ANALYTICS))>>

\* prose put before and after an object
ProseBefore == {EMPTY_TEXT, P_PROSE, P_STRAY_BRACE}
ProseAfter == {EMPTY_TEXT, S_PROSE, S_STRAY_BRACE}

\* C7: a reply that is one JSON object with prose before and/or after it is
\* answered with that object's transcript and analytics, whatever the prose.
C7_EmbeddedObjectExtracted ==
    RepliedText =>
        \A b \in ProseBefore, o \in ObjectTexts, a \in ProseAfter :
            (<<b, a>> # <<EMPTY_TEXT, EMPTY_TEXT>> /\ upstream.value.v = b \o o \o a) =>
                SameFields(RespondedFields, ObjectFields(o))

\* replies without JSON content and without a brace
PlainTexts ==
    {b \o c \o a : b \in {EMPTY_TEXT, P_PROSE}, c \in {T_NO_JSON, T_ONE_CHAR},
                   a \in {EMPTY_TEXT, S_PROSE}}

C9_FieldsAreNonEmptyStrings ==
    Succeeded =>
        /\ response.body.transcript.t = "string"
        /\ response.body.transcript.v # <<>>
        /\ response.body.analytics.t = "string"
        /\ response.body.analytics.v # <<>>

\* the first eight characters of a text
FirstEight(k) == SubSeq(k, 1, IF Len(k) < 8 THEN Len(k) ELSE 8)

\* C10: the probe answers configured exactly when the credential is set and
\* non-empty, keyPrefix is then its first eight characters followed by
\* '...' and 'N/A' otherwise, and a probe changes nothing but its response.
C10_ProbeReportsCredential ==
    /\ [](probe # NoProbe =>
            /\ probe.configured = ~CredentialAbsent
            /\ probe.keyPrefix =
                   (IF CredentialAbsent THEN JStr(NOT_AVAILABLE)
                    ELSE JStr(FirstEight(env.v) \o <<".", ".", ".">>)))
    /\ [][probe' # probe =>
            UNCHANGED <<env, variant, body, pc, file, calls, upstream, response>>]_vars

\* C10 witness: a credential longer than eight characters has been probed
C10_Witness ==
    /\ probe # NoProbe
    /\ probe.configured
    /\ Len(env.v) > 8

\* C11: the prefix the probe returns never holds the complete credential:
\* what stands before the '...' is a proper prefix of it.
C11_PrefixIsRedacted ==
    (probe # NoProbe /\ probe.configured) =>
        Len(probe.keyPrefix.v) - Len(ELLIPSIS) < Len(env.v)

\* the checks the handler makes before the external call have passed
ChecksPassed ==
    /\ ~CredentialAbsent
    /\ FileSupplied
    /\ body.value.size <= SizeCap

\* C14: a request makes at most one external call, only with the credential,
\* file-presence and size checks passed, and the count of calls does not
\* grow once the call has been issued, whether it fails or its reply does
\* not parse.
C14_SingleCallNoRetry ==
    /\ [](calls <= 1 /\ (calls = 1 => ChecksPassed))
    /\ [][(calls' > calls) => (calls = 0 /\ upstream.kind = "none" /\ ChecksPassed)]_vars

\* C14 witness: the single call was made and rejected
C14_Witness ==
    /\ Done
    /\ upstream.kind = "rejected"
    /\ calls = 1
    /\ response.status = 500

\* the direct parse of the fence-stripped reply gave no parsed object to
\* read the fields from
DirectFails(r) ==
    LET d == JSONParse(StripFences(r))
    IN  ~d.ok \/ d.v.t = "null"

\* the fields of a parsed value, defaulted
ValueFields(v) ==
    <<200,
      Or(Or(GetProp(v, KEY_TRANSCRIPT), JStr(<<>>)), JStr(NO_TRANSCRIPT)),
      Or(Or(GetProp(v, KEY_ANALYTICS), JStr(<<>>)), JStr(NO_ANALYTICS))>>

UnableText == IF variant = "analyze-audio" THEN UNABLE_AUDIO ELSE UNABLE_VIDEO

\* C15: the chain is ordered.  A reply whose stripped text parses is
\* answered from that parse, braces in it or not; only otherwise is the raw
\* reply searched for a brace-delimited substring, whose parse answers when
\* it succeeds, and when it fails the transcript is the entire raw reply and
\* the analytics the fixed 'Unable to generate structured analytics...' text.
C15_FallbackOrder ==
    RepliedText =>
        LET r == upstream.value.v
            m == BraceMatch(r)
        IN  /\ ~DirectFails(r) =>
                   SameFields(RespondedFields, ValueFields(JSONParse(StripFences(r)).v))
            /\ (DirectFails(r) /\ m # Null /\ JSONParse(m.v).ok) =>
                   SameFields(RespondedFields, ValueFields(JSONParse(m.v).v))
            /\ (DirectFails(r) /\ m # Null /\ ~JSONParse(m.v).ok) =>
                   SameFields(RespondedFields, <<200, JStr(r), JStr(UnableText)>>)

\* C15 witness: a fenced text with braces that is not JSON: the transcript
\* is the raw reply, fence markers included
C15_Witness ==
    /\ RepliedText
    /\ upstream.value.v = P_FENCE_JSON \o T_BAD_OBJECT \o S_FENCE
    /\ response.body.transcript = upstream.value
    /\ response.body.analytics.v = UnableText

\* C16: when the direct parse fails and the raw reply r has no
\* brace-delimited substring, r is split at floor(length(r) / 2): the
\* transcript is the first half and the analytics the second (each replaced
\* by its placeholder when empty), so with both halves non-empty their
\* concatenation is r and the transcript is not the longer one.
C16_SplitAtMidpoint ==
    (RepliedText /\ DirectFails(upstream.value.v) /\ BraceMatch(upstream.value.v) = Null) =>
        LET r == upstream.value.v
            h == Len(r) \div 2
            first == SubSeq(r, 1, h)
            second == SubSeq(r, h + 1, Len(r))
            tr == response.body.transcript
            an == response.body.analytics
        IN  /\ response.status = 200
            /\ tr = JStr(IF first = <<>> THEN NO_TRANSCRIPT ELSE first)
            /\ an = JStr(IF second = <<>> THEN NO_ANALYTICS ELSE second)
            /\ (first # <<>> /\ second # <<>>) =>
                   (tr.v \o an.v = r /\ Len(tr.v) <= Len(an.v))

\* C16 witness: the reply of a closing then an opening brace, in which no
\* brace-delimited substring exists, split into its two characters
C16_Witness ==
    /\ RepliedText
    /\ upstream.value.v = T_REVERSED
    /\ response.body.transcript.v = <<"}">>
    /\ response.body.analytics.v = <<"{">>

\* C13: the upload client never has the success result and an error message
\* set together, so no earlier result is shown beside a later error.
C13_OneStateAtATime == ~(result # Null /\ error # Null)

\* ids of the requests in flight
InflightIds(s) == {q.id : q \in s}

\* C17: the client has at most one request in flight; a request is sent only
\* by an upload action, with a file selected and loading false, and each
\* upload action sends exactly one request for the selected file; a settling
\* request is never sent again.
C17_OneRequestAtATime ==
    /\ [](Cardinality(inflight) <= 1)
    /\ [][/\ InflightIds(inflight') \subseteq InflightIds(inflight) \cup ((sent + 1)..sent')
          /\ (~Truthy(clientFile) \/ loading) => sent' = sent
          /\ sent' # sent =>
                /\ sent' = sent + 1
                /\ inflight = {}
                /\ Cardinality(inflight') = 1
                /\ \A q \in inflight' : q.id = sent' /\ q.file = clientFile]_vars

C17_Witness ==
    /\ sent = 2
    /\ Cardinality(inflight) = 1
    /\ loading
    /\ \A q \in inflight : q.id = 2 /\ q.file = clientFile

\* the request q has settled in this step
Settled(q) == q.id \notin InflightIds(inflight')

\* C18: loading is true exactly while a request is in flight; the step that
\* settles a request sets loading to false and records the outcome of that
\* attempt (the body as result on a 2xx JSON response, otherwise an error
\* message, the server's when the body carries one); and loading, once true,
\* eventually becomes false.
C18_LoadingUntilSettled ==
    /\ [](loading <=> inflight # {})
    /\ [][\A q \in inflight : Settled(q) =>
            /\ loading' = FALSE
            /\ IF q.stage = "json" /\ q.response.json /\ Ok(q.response)
               THEN result' = q.response.body
               ELSE /\ error' # Null
                    /\ error'.v # <<>>
                    /\ result' = result
                    /\ (q.stage = "json" /\ q.response.json
                        /\ Truthy(DataError(q.response.body)))
                           => error' = q.response.body.error
                    /\ (q.stage = "json" /\ q.response.json
                        /\ ~Truthy(DataError(q.response.body)))
                           => error' = JStr(FAILED_TO_ANALYZE)]_vars
    /\ (loading ~> ~loading)

C18_Witness ==
    /\ sent = 1
    /\ ~loading
    /\ inflight = {}
    /\ error = JStr(FAILED_TO_ANALYZE)
    /\ result = Null

\* C19: the result shown is the result of the file that is selected.
C19_ResultOfSelectedFile ==
    result # Null => result.metadata.fileName = JStr(clientFile.name)

\* the response of a handler run on its own with credential e, endpoint v,
\* body b and the external call settled as u
AloneResponse(e, v, b, u) ==
    LET f == FormDataGet(b, FieldName(v))
    IN  IF KeyMissing(e) THEN ConfigErrorResponse
        ELSE IF ~b.multipart
        THEN ErrorResponse(v, Err(TYPE_ERROR_NAME, MSG_NOT_FORM_DATA))
        ELSE IF FileMissing(f) THEN NoFileResponse(v)
        ELSE IF TooLarge(f, MaxSize(v)) THEN TooLargeResponse(v)
        ELSE IF f.t # "file"
        THEN ErrorResponse(v, Err(TYPE_ERROR_NAME, MSG_NO_ARRAY_BUFFER))
        ELSE IF u.kind = "resolved" THEN ReplyResponse(v, f, u.value)
        ELSE ErrorResponse(v, u.value)

\* C12: concurrent requests do not affect one another: the response of each
\* request is the response its handler gives alone for its own upload, the
\* credential and the model's reply to it, whatever the interleaving; a step
\* of one request changes nothing of another request, and the credential is
\* never written.
C12_RequestsIndependent ==
    /\ [](\A r \in Reqs : handlers[r].pc = "done" =>
            handlers[r].response =
                AloneResponse(env, handlers[r].variant, handlers[r].body,
                              handlers[r].upstream))
    /\ [][/\ env' = env
          /\ \A r \in Reqs : handlers'[r] # handlers[r] =>
                \A o \in Reqs \ {r} : handlers'[o] = handlers[o]]_vars

\* a request has been answered with success while another request, for a file
\* of a different size, is still waiting for the external call
C12_Witness ==
    /\ handlers[1].pc = "generate" /\ handlers[1].calls = 1
    /\ handlers[2].pc = "done" /\ handlers[2].calls = 1
    /\ handlers[2].response.status = 200
    /\ handlers[1].file.size # handlers[2].file.size

====
